---- MODULE Spec2Model ----
(***************************************************************************)
(* Model of clippy's processing pipeline (src/src/util/processing.rs) and  *)
(* of Config::validate (src/src/util/config.rs).                           *)
(*                                                                         *)
(* Strings are TLA+ strings, handled character by character with SubSeq,   *)
(* Len and \o.  An f64 is modelled as a fixed-point decimal: an integer    *)
(* counting hundredths (3.0 is 300, 90.5 is 9050).  Every input of the     *)
(* model is a decimal with at most two fractional digits and every         *)
(* product or quotient taken by the code on these inputs is again one, so  *)
(* the arithmetic below is exact on the values the model reaches.          *)
(* Option<T> is a sequence of length 0 (None) or 1 (Some).                 *)
(***************************************************************************)
EXTENDS Integers, Sequences, FiniteSets, TLC

\* ------------------------------------------------------------------------
\* Option<T>

None == <<>>

Some(x) == <<x>>

IsSome(o) == o # <<>>

Unwrap(o) == o[1]

\* ------------------------------------------------------------------------
\* f64 as hundredths

Hundredths == 10 * 10

F(int) == int * Hundredths

FMul(a, b) == (a * b) \div Hundredths

FDiv(a, b) == (a * Hundredths) \div b

\* `x as u64`: truncates towards zero and saturates at 0 for negatives.
AsU64(x) == IF x <= 0 THEN 0 ELSE x \div Hundredths

\* ------------------------------------------------------------------------
\* str helpers

MinOf(S) == CHOOSE m \in S : \A n \in S : m <= n

MatchAt(s, p, i) ==
    /\ i >= 1
    /\ i + Len(p) - 1 <= Len(s)
    /\ SubSeq(s, i, i + Len(p) - 1) = p

\* Index of the first occurrence of p in s at or after i, 0 when there is none.
RECURSIVE FindFrom(_, _, _)
FindFrom(s, p, i) ==
    IF i + Len(p) - 1 > Len(s) THEN 0
    ELSE IF SubSeq(s, i, i + Len(p) - 1) = p THEN i
    ELSE FindFrom(s, p, i + 1)

Find(s, p) == FindFrom(s, p, 1)

Contains(s, p) == Find(s, p) # 0

StartsWith(s, p) == MatchAt(s, p, 1)

EndsWith(s, p) == MatchAt(s, p, Len(s) - Len(p) + 1)

CharAt(s, i) == SubSeq(s, i, i)

UpperAlpha == "ABCDEFGHIJKLMNOPQRSTUVWXYZ"

LowerAlpha == "abcdefghijklmnopqrstuvwxyz"

LowerChar(c) ==
    LET i == Find(UpperAlpha, c)
    IN  IF i = 0 THEN c ELSE CharAt(LowerAlpha, i)

RECURSIVE ToLowercase(_)
ToLowercase(s) ==
    IF s = "" THEN ""
    ELSE LowerChar(CharAt(s, 1)) \o ToLowercase(SubSeq(s, 2, Len(s)))

\* str::split(sep): the pieces between the occurrences of sep, in order.
RECURSIVE Split(_, _)
Split(s, sep) ==
    LET i == Find(s, sep)
    IN  IF i = 0 THEN <<s>>
        ELSE <<SubSeq(s, 1, i - 1)>> \o Split(SubSeq(s, i + Len(sep), Len(s)), sep)

StripCr(l) == IF EndsWith(l, "\r") THEN SubSeq(l, 1, Len(l) - 1) ELSE l

\* str::lines(): split at "\n", a final empty piece dropped, a trailing "\r"
\* of each line removed.
Lines(s) ==
    LET raw  == Split(s, "\n")
        kept == IF raw[Len(raw)] = "" THEN SubSeq(raw, 1, Len(raw) - 1) ELSE raw
    IN  [k \in 1..Len(kept) |-> StripCr(kept[k])]

\* str::split_whitespace(): the non-empty pieces between blanks.
SplitWhitespace(s) == SelectSeq(Split(s, " "), LAMBDA w : w # "")

RECURSIVE Join(_, _)
Join(parts, sep) ==
    IF parts = <<>> THEN ""
    ELSE IF Len(parts) = 1 THEN parts[1]
    ELSE parts[1] \o sep \o Join(Tail(parts), sep)

\* Iterator::find over a sequence, given the indices of the elements that
\* satisfy the predicate: Some(first such element) or None.
FindFirst(seq, hits) ==
    IF hits = {} THEN None ELSE Some(seq[MinOf(hits)])

\* ------------------------------------------------------------------------
\* numbers and text

Digits == "0123456789"

IsDigit(c) == Len(c) = 1 /\ Contains(Digits, c)

DigitVal(c) == Find(Digits, c) - 1

\* Length of the longest run of digits of s that starts at index i.
RECURSIVE DigitRun(_, _)
DigitRun(s, i) ==
    IF i <= Len(s) /\ IsDigit(CharAt(s, i)) THEN 1 + DigitRun(s, i + 1) ELSE 0

RECURSIVE DigitsValue(_)
DigitsValue(d) ==
    IF d = "" THEN 0
    ELSE 10 * DigitsValue(SubSeq(d, 1, Len(d) - 1)) + DigitVal(CharAt(d, Len(d)))

\* The first two fractional digits as hundredths ("5" is 50, "05" is 5).
FracValue(d) ==
    IF d = "" THEN 0
    ELSE IF Len(d) = 1 THEN 10 * DigitVal(d)
    ELSE DigitsValue(SubSeq(d, 1, 2))

\* str::parse::<f64>() on plain decimal notation: an optional sign, digits,
\* an optional point and digits, at least one digit in all.  Some(value) or
\* None.  (Exponents, "inf" and "nan" are not among the model's inputs.)
ParseF64(s) ==
    LET signed == s # "" /\ CharAt(s, 1) \in {"+", "-"}
        body   == IF signed THEN SubSeq(s, 2, Len(s)) ELSE s
        n1     == DigitRun(body, 1)
        point  == n1 < Len(body) /\ CharAt(body, n1 + 1) = "."
        n2     == IF point THEN DigitRun(body, n1 + 2) ELSE 0
        used   == n1 + (IF point THEN 1 + n2 ELSE 0)
        mag    == F(DigitsValue(SubSeq(body, 1, n1)))
                    + FracValue(SubSeq(body, n1 + 2, n1 + 1 + n2))
    IN  IF used = Len(body) /\ n1 + n2 >= 1
        THEN Some(IF signed /\ CharAt(s, 1) = "-" THEN 0 - mag ELSE mag)
        ELSE None

RECURSIVE NatToString(_)
NatToString(n) ==
    IF n < 10 THEN CharAt(Digits, n + 1)
    ELSE NatToString(n \div 10) \o CharAt(Digits, (n % 10) + 1)

\* Display for f64 ("{}" and to_string): the shortest decimal that reads
\* back as the value; 3.0 prints as "3", 0.5 as "0.5", -5.0 as "-5".
FormatF64(x) ==
    LET a    == IF x < 0 THEN 0 - x ELSE x
        ip   == a \div Hundredths
        fp   == a % Hundredths
        frac == IF fp = 0 THEN ""
                ELSE IF fp % 10 = 0 THEN "." \o NatToString(fp \div 10)
                ELSE "." \o NatToString(fp \div 10) \o NatToString(fp % 10)
    IN  (IF x < 0 THEN "-" ELSE "") \o NatToString(ip) \o frac

\* ------------------------------------------------------------------------
\* Result<(), String>

Ok == [ok |-> TRUE, err |-> ""]

Err(msg) == [ok |-> FALSE, err |-> msg]

\* ------------------------------------------------------------------------
\* Config::validate

\* Variant of RequiredKeys: the bitrate is not required.
RequiredKeysWithoutBitrate(s) ==
    <<s.input_video_path, s.output_video_path, s.ffmpeg_path>>

RequiredKeys(s) ==
    <<s.input_video_path, s.output_video_path, s.ffmpeg_path, s.video_bitrate>>

Validate(s) ==
    LET keys == RequiredKeys(s)
        bad  == FindFirst(keys, {k \in 1..Len(keys) : keys[k] = ""})
    IN  IF IsSome(bad)
        THEN Err("Missing required config key: " \o Unwrap(bad))
        ELSE Ok

\* ------------------------------------------------------------------------
\* Media inspection: the probe invocation and the scan of its stderr

ProbeArgv(s) == <<s.ffmpeg_path, "-i", s.input_video_path, "-hide_banner">>

ScanDuration(output) ==
    LET ls   == Lines(output)
        line == FindFirst(ls, {k \in 1..Len(ls) : Contains(ls[k], "Duration")})
    IN  IF line = None THEN None
        ELSE LET after == Split(Unwrap(line), "Duration: ")
             IN  IF Len(after) < 2 THEN None
                 ELSE LET duration_str == Split(after[2], ",")[1]
                          parts == Split(duration_str, ":")
                      IN  IF Len(parts) < 3 THEN None
                          ELSE LET h == ParseF64(parts[1])
                                   m == ParseF64(parts[2])
                                   sec == ParseF64(parts[3])
                               IN  IF h = None \/ m = None \/ sec = None THEN None
                                   ELSE Some(FMul(Unwrap(h), F(3600))
                                             + FMul(Unwrap(m), F(60))
                                             + Unwrap(sec))

ScanFramerate(output) ==
    LET ls   == Lines(output)
        line == FindFirst(ls, {k \in 1..Len(ls) :
                                 Contains(ls[k], "Stream") /\ Contains(ls[k], "Video")})
    IN  IF line = None THEN None
        ELSE LET words == SplitWhitespace(Split(Unwrap(line), "fps")[1])
             IN  IF words = <<>> THEN None
                 ELSE ParseF64(words[Len(words)])

\* ------------------------------------------------------------------------
\* Timing resolution

IsNoneWord(str) == ToLowercase(str) = "none"

FadeInDuration(s) == IF IsSome(s.fade_in_duration) THEN Unwrap(s.fade_in_duration) ELSE F(3)

FadeOutDuration(s) == IF IsSome(s.fade_out_duration) THEN Unwrap(s.fade_out_duration) ELSE F(3)

\* Each of the three: [ok, val, err].
\* Variant of ClipStartTimeFloat: a non-numeric value falls back to 0.0.
ClipStartTimeFloatLenient(s) ==
    IF IsSome(s.clip_start_time)
    THEN IF IsNoneWord(Unwrap(s.clip_start_time))
         THEN [ok |-> TRUE, val |-> 0, err |-> ""]
         ELSE LET v == ParseF64(Unwrap(s.clip_start_time))
              IN  [ok |-> TRUE, val |-> IF IsSome(v) THEN Unwrap(v) ELSE 0, err |-> ""]
    ELSE [ok |-> TRUE, val |-> 0, err |-> ""]

ClipStartTimeFloat(s) ==
    IF IsSome(s.clip_start_time)
    THEN IF IsNoneWord(Unwrap(s.clip_start_time))
         THEN [ok |-> TRUE, val |-> 0, err |-> ""]
         ELSE LET v == ParseF64(Unwrap(s.clip_start_time))
              IN  IF IsSome(v) THEN [ok |-> TRUE, val |-> Unwrap(v), err |-> ""]
                  ELSE [ok |-> FALSE, val |-> 0, err |-> "Invalid clip_start_time"]
    ELSE [ok |-> TRUE, val |-> 0, err |-> ""]

ClipEndTimeFloat(s, dur) ==
    IF IsSome(s.clip_end_time)
    THEN IF IsNoneWord(Unwrap(s.clip_end_time))
         THEN [ok |-> TRUE, val |-> dur, err |-> ""]
         ELSE LET v == ParseF64(Unwrap(s.clip_end_time))
              IN  IF IsSome(v) THEN [ok |-> TRUE, val |-> Unwrap(v), err |-> ""]
                  ELSE [ok |-> FALSE, val |-> 0, err |-> "Invalid clip_end_time"]
    ELSE [ok |-> TRUE, val |-> dur, err |-> ""]

FadeOutStartTime(clip_end, fade_out) == clip_end - fade_out

\* ------------------------------------------------------------------------
\* Filter chains

\* Variant of VideoFilters: the chain does not start with the fade.
VideoFiltersWithoutFade(s, t) ==
    (IF IsSome(s.upscale_resolution) /\ ~IsNoneWord(Unwrap(s.upscale_resolution))
     THEN <<"scale=" \o Unwrap(s.upscale_resolution)>> ELSE <<>>)
    \o (IF s.video_speed # F(1)
        THEN <<"setpts=" \o FormatF64(FDiv(F(1), s.video_speed)) \o "*PTS">> ELSE <<>>)

VideoFilters(s, t) ==
    <<"fade=t=in:st=0:d=" \o FormatF64(t.fade_in)
        \o ",fade=t=out:st=" \o FormatF64(t.fade_out_start)
        \o ":d=" \o FormatF64(t.fade_out)>>
    \o (IF IsSome(s.upscale_resolution) /\ ~IsNoneWord(Unwrap(s.upscale_resolution))
        THEN <<"scale=" \o Unwrap(s.upscale_resolution)>> ELSE <<>>)
    \o (IF s.video_speed # F(1)
        THEN <<"setpts=" \o FormatF64(FDiv(F(1), s.video_speed)) \o "*PTS">> ELSE <<>>)

VideoFilterStr(s, t) == Join(VideoFilters(s, t), ",")

AudioFilters(s, t) ==
    <<"afade=t=in:st=0:d=" \o FormatF64(t.fade_in)
        \o ",afade=t=out:st=" \o FormatF64(t.fade_out_start)
        \o ":d=" \o FormatF64(t.fade_out)>>
    \o (IF s.video_speed # F(1)
        THEN <<"atempo=" \o FormatF64(s.video_speed)>> ELSE <<>>)

AudioFilterStr(s, t) == Join(AudioFilters(s, t), ",")

VideoCodec(s) == IF s.use_gpu THEN "hevc_nvenc" ELSE "libx265"

\* ------------------------------------------------------------------------
\* Command assembly

ClipArgs(t, dur) ==
    (IF t.clip_start > 0 THEN <<"-ss", FormatF64(t.clip_start)>> ELSE <<>>)
    \o (IF t.clip_end < dur THEN <<"-to", FormatF64(t.clip_end)>> ELSE <<>>)

HasBackground(s) ==
    IsSome(s.background_audio_path) /\ ~IsNoneWord(Unwrap(s.background_audio_path))

BackgroundInputArgs(s) ==
    IF HasBackground(s)
    THEN <<"-ss", FormatF64(s.audio_start_time), "-i", Unwrap(s.background_audio_path)>>
    ELSE <<>>

\* Variant of RateControlArgs: the CRF is kept under GPU mode.
RateControlArgsCrfUnderGpu(s) ==
    IF IsSome(s.crf)
    THEN IF ~IsNoneWord(Unwrap(s.crf))
         THEN <<"-crf", Unwrap(s.crf)>>
         ELSE <<"-b:v", s.video_bitrate>>
    ELSE <<"-b:v", s.video_bitrate>>

RateControlArgs(s) ==
    IF IsSome(s.crf)
    THEN IF ~IsNoneWord(Unwrap(s.crf)) /\ ~s.use_gpu
         THEN <<"-crf", Unwrap(s.crf)>>
         ELSE <<"-b:v", s.video_bitrate>>
    ELSE <<"-b:v", s.video_bitrate>>

VideoArgs(s, fps, video_filter_str) ==
    IF video_filter_str = ""
    THEN <<"-c:v", "copy">>
    ELSE <<"-filter_complex", "[0:v]" \o video_filter_str \o "[v]", "-map", "[v]">>
         \o (IF s.video_speed # F(1)
             THEN <<"-r", FormatF64(FMul(fps, s.video_speed))>> ELSE <<>>)
         \o <<"-c:v", VideoCodec(s)>>
         \o RateControlArgs(s)

\* Variant of AudioArgs: replace_audio is not consulted.
AudioArgsAlwaysMix(s, audio_filter_str) ==
    IF IsSome(s.background_audio_path) /\ ~IsNoneWord(Unwrap(s.background_audio_path))
    THEN <<"-filter_complex",
           "[0:a]volume=" \o FormatF64(s.original_audio_volume)
              \o "[a0];[1:a]volume=" \o FormatF64(s.background_audio_volume)
              \o "," \o audio_filter_str
              \o "[a1];[a0][a1]amix=inputs=2:duration=first:dropout_transition=3[a]",
           "-map", "[a]">>
    ELSE <<"-filter_complex",
           "[0:a]volume=" \o FormatF64(s.original_audio_volume) \o audio_filter_str,
           "-map", "[a]">>

AudioArgs(s, audio_filter_str) ==
    IF IsSome(s.background_audio_path)
    THEN IF ~IsNoneWord(Unwrap(s.background_audio_path))
         THEN IF s.replace_audio
              THEN <<"-filter_complex",
                     "[1:a]volume=" \o FormatF64(s.background_audio_volume)
                        \o "," \o audio_filter_str \o "[a]",
                     "-map", "[a]">>
              ELSE <<"-filter_complex",
                     "[0:a]volume=" \o FormatF64(s.original_audio_volume)
                        \o "[a0];[1:a]volume=" \o FormatF64(s.background_audio_volume)
                        \o "," \o audio_filter_str
                        \o "[a1];[a0][a1]amix=inputs=2:duration=first:dropout_transition=3[a]",
                     "-map", "[a]">>
         ELSE <<"-filter_complex",
                "[0:a]volume=" \o FormatF64(s.original_audio_volume) \o audio_filter_str,
                "-map", "[a]">>
    ELSE <<"-filter_complex",
           "[0:a]volume=" \o FormatF64(s.original_audio_volume) \o audio_filter_str,
           "-map", "[a]">>

OutputArgs(s) == <<"-c:a", "aac", "-b:a", "192k", "-y", s.output_video_path>>

\* Variant of FfmpegCommand: the audio group precedes the video group.
FfmpegCommandAudioFirst(s, t, dur, fps) ==
    <<s.ffmpeg_path, "-i", s.input_video_path>>
    \o ClipArgs(t, dur)
    \o BackgroundInputArgs(s)
    \o AudioArgs(s, AudioFilterStr(s, t))
    \o VideoArgs(s, fps, VideoFilterStr(s, t))
    \o OutputArgs(s)

FfmpegCommand(s, t, dur, fps) ==
    <<s.ffmpeg_path, "-i", s.input_video_path>>
    \o ClipArgs(t, dur)
    \o BackgroundInputArgs(s)
    \o VideoArgs(s, fps, VideoFilterStr(s, t))
    \o AudioArgs(s, AudioFilterStr(s, t))
    \o OutputArgs(s)

\* ------------------------------------------------------------------------
\* Progress parsing

\* The regex time=(\d+):(\d+):(\d+\.\d+) tried at index i of line: the three
\* captures, or <<>>.  A digit run is always taken whole: the character
\* that must follow it is not a digit.
TimeMatchAt(line, i) ==
    IF ~MatchAt(line, "time=", i) THEN <<>>
    ELSE LET h0 == i + 5
             hn == DigitRun(line, h0)
             m0 == h0 + hn + 1
             mn == DigitRun(line, m0)
             s0 == m0 + mn + 1
             sn == DigitRun(line, s0)
             f0 == s0 + sn + 1
             fn == DigitRun(line, f0)
         IN  IF /\ hn >= 1 /\ MatchAt(line, ":", h0 + hn)
                /\ mn >= 1 /\ MatchAt(line, ":", m0 + mn)
                /\ sn >= 1 /\ MatchAt(line, ".", s0 + sn)
                /\ fn >= 1
             THEN <<SubSeq(line, h0, h0 + hn - 1),
                    SubSeq(line, m0, m0 + mn - 1),
                    SubSeq(line, s0, f0 + fn - 1)>>
             ELSE <<>>

\* The captures of the leftmost match at or after index i, or <<>>.
RECURSIVE Captures(_, _)
Captures(line, i) ==
    LET j == FindFrom(line, "time=", i)
    IN  IF j = 0 THEN <<>>
        ELSE IF TimeMatchAt(line, j) # <<>> THEN TimeMatchAt(line, j)
        ELSE Captures(line, j + 1)

\* Some(elapsed seconds) from the leftmost match in the line, else None.
ParseFfmpegProgress(line) ==
    LET caps == Captures(line, 1)
    IN  IF caps = <<>> THEN None
        ELSE LET hours == ParseF64(caps[1])
                 minutes == ParseF64(caps[2])
                 seconds == ParseF64(caps[3])
             IN  IF hours = None \/ minutes = None \/ seconds = None THEN None
                 ELSE Some(FMul(Unwrap(hours), F(3600))
                           + FMul(Unwrap(minutes), F(60))
                           + Unwrap(seconds))

\* ExitStatus: [code |-> n] for a normal exit, [signal |-> n] for a kill.
\* Variant of StatusSuccess: any normal exit counts as success.
StatusSuccessAnyExit(st) == "code" \in DOMAIN st

StatusSuccess(st) == "code" \in DOMAIN st /\ st.code = 0

StatusDisplay(st) ==
    IF "code" \in DOMAIN st THEN "exit status: " \o NatToString(st.code)
    ELSE "signal: " \o NatToString(st.signal)

StatusResult(st) ==
    IF ~StatusSuccess(st)
    THEN Err("FFmpeg command failed with status: " \o StatusDisplay(st))
    ELSE Ok

\* ------------------------------------------------------------------------
\* Inputs of the model: the settings a configuration file can hold and what
\* the external tool and the operating system can answer.

\* The most items the transcode's stderr reader yields before end-of-input.

MaxLines == 3

BaseSettings ==
    [input_video_path        |-> "in.mp4",
     output_video_path       |-> "out.mp4",
     ffmpeg_path             |-> "ffmpeg",
     use_gpu                 |-> FALSE,
     video_bitrate           |-> "5M",
     crf                     |-> None,
     upscale_resolution      |-> None,
     background_audio_path   |-> None,
     audio_start_time        |-> 0,
     replace_audio           |-> FALSE,
     original_audio_volume   |-> F(1),
     background_audio_volume |-> F(1) \div 2,
     clip_start_time         |-> None,
     clip_end_time           |-> None,
     video_speed             |-> F(1),
     advanced_log            |-> FALSE,
     fade_in_duration        |-> None,
     fade_out_duration       |-> None]

\* Settings that pass validation, varied in what the filter chains and the
\* command assembly read.  advanced_log is read only at the call of
\* run_ffmpeg_command, after the command is complete: this family runs in
\* pass-through mode and the next one in both modes.
AssemblySettings ==
    {[BaseSettings EXCEPT
         !.use_gpu = gpu, !.crf = crf, !.upscale_resolution = up,
         !.background_audio_path = bg, !.replace_audio = rep,
         !.clip_start_time = cs, !.clip_end_time = ce,
         !.video_speed = speed, !.advanced_log = TRUE] :
       gpu \in BOOLEAN,
       crf \in {None, Some("None"), Some("28")},
       up \in {None, Some("NONE"), Some("1280x720")},
       bg \in {None, Some("NoNe"), Some("music.mp3")},
       rep \in BOOLEAN,
       cs \in {None, Some("10")},
       ce \in {None, Some("80")},
       speed \in {F(1), F(2), F(1) \div 2}}

\* Settings that pass validation, varied in what the timing resolution reads
\* and in the execution mode.
TimingSettings ==
    {[BaseSettings EXCEPT
         !.clip_start_time = cs, !.clip_end_time = ce,
         !.fade_in_duration = fades[1], !.fade_out_duration = fades[2],
         !.advanced_log = log] :
       cs \in {None, Some("NONE"), Some("10"), Some("-5"), Some("abc")},
       ce \in {None, Some("none"), Some("80"), Some("200"), Some("5"), Some("end")},
       fades \in {<<None, None>>, <<Some(F(2)), Some(F(5))>>},
       log \in BOOLEAN}

CompleteSettings == AssemblySettings \cup TimingSettings

\* Settings with any of the four required strings empty.
IncompleteSettings ==
    {[BaseSettings EXCEPT
         !.input_video_path = inp, !.output_video_path = outp,
         !.ffmpeg_path = tool, !.video_bitrate = rate,
         !.advanced_log = log] :
       inp \in {"", "in.mp4"}, outp \in {"", "out.mp4"},
       tool \in {"", "ffmpeg"}, rate \in {"", "5M"},
       log \in BOOLEAN}

AllSettings == CompleteSettings \cup IncompleteSettings

\* What the probe invocation can print on stderr: a video file, a missing
\* file, an audio-only file, a stream of unknown length.
ProbeOutputs ==
    {"Input #0, mov, from 'in.mp4':\n  Duration: 00:01:30.50, start: 0.00, bitrate: 5128 kb/s\n  Stream #0:0: Video: h264, 1920x1080, 25 fps, 25 tbr\n",
     "in.mp4: No such file or directory\n",
     "Input #0, mp3, from 'in.mp4':\n  Duration: 00:01:30.50, start: 0.00\n  Stream #0:0: Audio: mp3, 44100 Hz\n",
     "Input #0, webm, from 'in.mp4':\n  Duration: N/A, bitrate: N/A\n  Stream #0:0: Video: vp9, 30 fps\n"}

\* What a read of the transcode's stderr can yield: Some(line), or None for
\* a line that is not valid UTF-8 (an Err item of lines()).
DiagReads ==
    {Some("frame=100 fps=25 q=28.0 time=00:00:45.00 bitrate=46.6kbits/s"),
     Some("frame=30 fps=25 q=28.0 time=00:00:10.00 bitrate=52.4kbits/s"),
     Some("Press [q] to stop, [?] for help"),
     None}

SpawnErrors == {"No such file or directory (os error 2)"}

ExitStatuses == {[code |-> 0], [code |-> 1], [signal |-> 9]}

\* ------------------------------------------------------------------------
\* State

VARIABLES
    settings,        \* the Settings of the run
    pc,              \* the stage add_fade_effects is about to run
    result,          \* None while running, then Some(Result) of add_fade_effects
    launched,        \* the external processes started so far, in order
    duration,        \* Option<f64>: the probed duration
    framerate,       \* Option<f64>: the probed frame rate
    timing,          \* Option: the resolved clip and fade times
    ffmpeg_command,  \* the assembled argument sequence, <<>> before assembly
    sup,             \* the supervised child: NotStarted, Running, then
                     \* Succeeded or Failed once its exit status is mapped
    length,          \* Option<u64>: the progress bar's length, once created
    position,        \* the progress bar's position (seconds)
    nread,           \* items taken from the stderr reader so far
    eof,             \* the stderr reader has reached end-of-input
    status           \* Option<ExitStatus>: the status once read

vars == <<settings, pc, result, launched, duration, framerate, timing,
          ffmpeg_command, sup, length, position, nread, eof, status>>

pipeVars == <<duration, framerate, timing, ffmpeg_command>>

supVars == <<sup, length, position, nread, eof, status>>

Init ==
    /\ settings \in AllSettings
    /\ pc = "validate"
    /\ result = None
    /\ launched = <<>>
    /\ duration = None
    /\ framerate = None
    /\ timing = None
    /\ ffmpeg_command = <<>>
    /\ sup = "NotStarted"
    /\ length = None
    /\ position = 0
    /\ nread = 0
    /\ eof = FALSE
    /\ status = None

\* The `?` operator: the function returns the error.
Return(r) == pc' = "done" /\ result' = Some(r)

\* ------------------------------------------------------------------------
\* add_fade_effects, stage by stage

ValidateStep ==
    /\ pc = "validate"
    /\ IF Validate(settings).ok
       THEN pc' = "probe" /\ UNCHANGED result
       ELSE Return(Validate(settings))
    /\ UNCHANGED <<settings, launched, pipeVars, supVars>>

\* Command::output() fails: no process was started.
ProbeSpawnFail ==
    /\ pc = "probe"
    /\ \E e \in SpawnErrors : Return(Err(e))
    /\ UNCHANGED <<settings, launched, pipeVars, supVars>>

\* The probe runs to its end and its stderr is scanned.
Probe ==
    /\ pc = "probe"
    /\ launched' = Append(launched, [kind |-> "probe", argv |-> ProbeArgv(settings)])
    /\ \E output \in ProbeOutputs :
         LET d == ScanDuration(output)
             f == ScanFramerate(output)
         IN  IF d = None
             THEN /\ Return(Err("Could not determine video duration"))
                  /\ UNCHANGED <<duration, framerate>>
             ELSE IF f = None
             THEN /\ Return(Err("Could not determine video framerate"))
                  /\ UNCHANGED <<duration, framerate>>
             ELSE /\ duration' = d
                  /\ framerate' = f
                  /\ pc' = "resolve"
                  /\ UNCHANGED result
    /\ UNCHANGED <<settings, timing, ffmpeg_command, supVars>>

ResolveTiming ==
    /\ pc = "resolve"
    /\ LET cs == ClipStartTimeFloat(settings)
           ce == ClipEndTimeFloat(settings, Unwrap(duration))
       IN  IF ~cs.ok THEN Return(Err(cs.err)) /\ UNCHANGED timing
           ELSE IF ~ce.ok THEN Return(Err(ce.err)) /\ UNCHANGED timing
           ELSE /\ timing' = Some([clip_start     |-> cs.val,
                                   clip_end       |-> ce.val,
                                   fade_in        |-> FadeInDuration(settings),
                                   fade_out       |-> FadeOutDuration(settings),
                                   fade_out_start |->
                                       FadeOutStartTime(ce.val, FadeOutDuration(settings))])
                /\ pc' = "assemble"
                /\ UNCHANGED result
    /\ UNCHANGED <<settings, launched, duration, framerate, ffmpeg_command, supVars>>

Assemble ==
    /\ pc = "assemble"
    /\ ffmpeg_command' = FfmpegCommand(settings, Unwrap(timing),
                                       Unwrap(duration), Unwrap(framerate))
    /\ pc' = "execute"
    /\ UNCHANGED <<settings, result, launched, duration, framerate, timing, supVars>>

\* ------------------------------------------------------------------------
\* run_ffmpeg_command

\* status() or spawn() fails: no process was started, there is no child to
\* supervise and the error of the launch is returned.
SpawnFail ==
    /\ pc = "execute"
    /\ sup = "NotStarted"
    /\ \E e \in SpawnErrors : Return(Err(e))
    /\ UNCHANGED <<settings, launched, pipeVars, supVars>>

\* The transcode starts; in tracked mode the progress bar is created at 0.
Spawn ==
    /\ pc = "execute"
    /\ sup = "NotStarted"
    /\ launched' = Append(launched, [kind |-> "transcode", argv |-> ffmpeg_command])
    /\ sup' = "Running"
    /\ length' = IF settings.advanced_log THEN None ELSE Some(AsU64(Unwrap(duration)))
    /\ position' = 0
    /\ UNCHANGED <<settings, pc, result, pipeVars, nread, eof, status>>

\* One turn of `for line in reader.lines()`.
ReadLine ==
    /\ sup = "Running"
    /\ ~settings.advanced_log
    /\ ~eof
    /\ nread < MaxLines
    /\ \E line \in DiagReads :
         LET elapsed == IF IsSome(line) THEN ParseFfmpegProgress(Unwrap(line)) ELSE None
         IN  position' = IF IsSome(elapsed) THEN AsU64(Unwrap(elapsed)) ELSE position
    /\ nread' = nread + 1
    /\ UNCHANGED <<settings, pc, result, launched, pipeVars, sup, length, eof, status>>

\* The child closes its stderr: lines() is exhausted.
StreamEof ==
    /\ sup = "Running"
    /\ ~settings.advanced_log
    /\ ~eof
    /\ eof' = TRUE
    /\ UNCHANGED <<settings, pc, result, launched, pipeVars, sup, length, position,
                   nread, status>>

\* The read loop of tracked mode is over.
ReadLoopDone == eof

\* The exit status is read and mapped (status() in pass-through mode,
\* child.wait() in tracked mode).  wait() failing on the child this call
\* spawned, and stderr missing from a child spawned with Stdio::piped(), are
\* left out: neither happens to a process started this way.
Wait ==
    /\ sup = "Running"
    /\ settings.advanced_log \/ ReadLoopDone
    /\ \E st \in ExitStatuses :
         /\ status' = Some(st)
         /\ Return(StatusResult(st))
         /\ sup' = IF StatusResult(st).ok THEN "Succeeded" ELSE "Failed"
    /\ UNCHANGED <<settings, launched, pipeVars, length, position, nread, eof>>

Next ==
    \/ ValidateStep
    \/ ProbeSpawnFail
    \/ Probe
    \/ ResolveTiming
    \/ Assemble
    \/ SpawnFail
    \/ Spawn
    \/ ReadLine
    \/ StreamEof
    \/ Wait

Spec == Init /\ [][Next]_vars

\* ------------------------------------------------------------------------
\* Properties

\* Every spelling of "none" that differs only in letter case.
NoneSpellings ==
    {a \o b \o c \o d : a \in {"n", "N"}, b \in {"o", "O"},
                         c \in {"n", "N"}, d \in {"e", "E"}}

Assembled == ffmpeg_command # <<>>

TokensAt(cmd, tok) == {i \in 1..Len(cmd) : cmd[i] = tok}

TranscodeLaunches(l) == {i \in 1..Len(l) : l[i].kind = "transcode"}

BackgroundConfigured ==
    /\ IsSome(settings.background_audio_path)
    /\ Unwrap(settings.background_audio_path) \notin NoneSpellings

\* C1: with any of input path, output path, tool path or bitrate empty, the
\* run ends in validate()'s error and no external process is ever launched.
C1_ValidationBeforeLaunch ==
    (\/ settings.input_video_path = ""
     \/ settings.output_video_path = ""
     \/ settings.ffmpeg_path = ""
     \/ settings.video_bitrate = "")
    => /\ launched = <<>>
       /\ pc \in {"validate", "done"}
       /\ pc = "done" =>
            /\ IsSome(result)
            /\ ~Unwrap(result).ok
            /\ StartsWith(Unwrap(result).err, "Missing required config key")

C1_Witness ==
    /\ pc = "done"
    /\ settings.video_bitrate = ""
    /\ settings.input_video_path # ""
    /\ settings.output_video_path # ""
    /\ settings.ffmpeg_path # ""
    /\ IsSome(result)
    /\ ~Unwrap(result).ok
    /\ launched = <<>>

\* C2: the assembled command is laid out in the fixed order: tool, -i, input;
\* -ss <clip-start> iff clip-start > 0; -to <clip-end> iff clip-end < duration;
\* -ss <audio start> -i <background> iff background audio is configured; the
\* video filter-graph segment and its map; -r iff speed # 1; the video codec
\* and rate control; the audio filter-graph segment and its map; and last
\* exactly -c:a aac -b:a 192k -y <output>.
C2_TokenOrder ==
    Assembled =>
      LET cmd == ffmpeg_command
          t   == Unwrap(timing)
          a   == 4
          b   == a + (IF t.clip_start > 0 THEN 2 ELSE 0)
          c   == b + (IF t.clip_end < Unwrap(duration) THEN 2 ELSE 0)
          d   == c + (IF BackgroundConfigured THEN 4 ELSE 0)
          e   == d + 4
          f   == e + (IF settings.video_speed # F(1) THEN 2 ELSE 0)
          g   == f + 4
          h   == g + 4
      IN  /\ Len(cmd) = h + 5
          /\ SubSeq(cmd, 1, 3) = <<settings.ffmpeg_path, "-i", settings.input_video_path>>
          /\ b > a => cmd[a] = "-ss" /\ ParseF64(cmd[a + 1]) = Some(t.clip_start)
          /\ c > b => cmd[b] = "-to" /\ ParseF64(cmd[b + 1]) = Some(t.clip_end)
          /\ d > c => /\ cmd[c] = "-ss"
                      /\ ParseF64(cmd[c + 1]) = Some(settings.audio_start_time)
                      /\ cmd[c + 2] = "-i"
                      /\ cmd[c + 3] = Unwrap(settings.background_audio_path)
          /\ cmd[d] = "-filter_complex"
          /\ StartsWith(cmd[d + 1], "[0:v]")
          /\ cmd[d + 2] = "-map"
          /\ cmd[d + 3] = "[v]"
          /\ f > e => cmd[e] = "-r"
          /\ cmd[f] = "-c:v"
          /\ cmd[f + 2] \in {"-crf", "-b:v"}
          /\ cmd[g] = "-filter_complex"
          /\ Contains(cmd[g + 1], ":a]")
          /\ cmd[g + 2] = "-map"
          /\ cmd[g + 3] = "[a]"
          /\ SubSeq(cmd, h, h + 5)
               = <<"-c:a", "aac", "-b:a", "192k", "-y", settings.output_video_path>>

C2_Witness ==
    /\ Assembled
    /\ Unwrap(timing).clip_start > 0
    /\ Unwrap(timing).clip_end < Unwrap(duration)
    /\ BackgroundConfigured
    /\ settings.video_speed # F(1)
    /\ settings.video_speed = F(1) \div 2
    /\ Len(ffmpeg_command) = 31

\* A filter graph defines a label as an output when the label closes one of
\* its chains: it stands at the end of the graph or right before a ";".
DefinesOutputLabel(graph, label) ==
    EndsWith(graph, label) \/ Contains(graph, label \o ";")

\* C3: every label passed to -map in the assembled command is defined as an
\* output label by some -filter_complex segment of the same command.
C3_MappedLabelsDefined ==
    Assembled =>
      \A i \in TokensAt(ffmpeg_command, "-map") :
        \E j \in TokensAt(ffmpeg_command, "-filter_complex") :
          DefinesOutputLabel(ffmpeg_command[j + 1], ffmpeg_command[i + 1])

\* C4: the command contains -crf <value> iff a CRF is present, is not "none"
\* in any letter case and GPU mode is off; otherwise it contains
\* -b:v <bitrate>; never both and never neither.
C4_RateControl ==
    Assembled =>
      LET cmd    == ffmpeg_command
          useCrf == /\ IsSome(settings.crf)
                    /\ Unwrap(settings.crf) \notin NoneSpellings
                    /\ ~settings.use_gpu
          crfAt  == TokensAt(cmd, "-crf")
          bvAt   == TokensAt(cmd, "-b:v")
      IN  IF useCrf
          THEN /\ Cardinality(crfAt) = 1
               /\ bvAt = {}
               /\ \A i \in crfAt : cmd[i + 1] = Unwrap(settings.crf)
          ELSE /\ crfAt = {}
               /\ Cardinality(bvAt) = 1
               /\ \A i \in bvAt : cmd[i + 1] = settings.video_bitrate

C4_Witness ==
    /\ Assembled
    /\ settings.crf = Some("28")
    /\ settings.use_gpu
    /\ TokensAt(ffmpeg_command, "-b:v") # {}

Topology ==
    IF ~BackgroundConfigured THEN "direct"
    ELSE IF settings.replace_audio THEN "replace-with-background"
    ELSE "mix-with-background"

AudioSegments(cmd) ==
    {i \in TokensAt(cmd, "-filter_complex") : Contains(cmd[i + 1], ":a]")}

\* C5: the audio topology is a total function of (background_audio_path,
\* replace_audio): direct reads only [0:a]; replace-with-background reads only
\* [1:a]; mix-with-background puts the original volume on [0:a], the
\* background volume and the audio-fade chain on [1:a], then
\* amix=inputs=2:duration=first:dropout_transition=3.  Exactly one audio
\* segment is emitted.
C5_AudioTopology ==
    Assembled =>
      /\ Cardinality(AudioSegments(ffmpeg_command)) = 1
      /\ \A i \in AudioSegments(ffmpeg_command) :
           LET graph == ffmpeg_command[i + 1]
           IN  CASE Topology = "direct" ->
                      Contains(graph, "[0:a]") /\ ~Contains(graph, "[1:a]")
                 [] Topology = "replace-with-background" ->
                      Contains(graph, "[1:a]") /\ ~Contains(graph, "[0:a]")
                 [] Topology = "mix-with-background" ->
                      /\ StartsWith(graph, "[0:a]volume="
                                             \o FormatF64(settings.original_audio_volume)
                                             \o "[")
                      /\ Contains(graph, "[1:a]volume="
                                           \o FormatF64(settings.background_audio_volume)
                                           \o ",afade=")
                      /\ Find(graph, "[1:a]")
                           < Find(graph, "amix=inputs=2:duration=first:dropout_transition=3")

C5_Witness ==
    /\ Assembled
    /\ settings.background_audio_path = Some("music.mp3")
    /\ settings.replace_audio
    /\ Topology = "replace-with-background"

\* C6: the supervised child moves NotStarted -> Running -> {Succeeded, Failed};
\* in either mode status 0 yields Succeeded and any other status yields Failed
\* with a message describing it; in tracked mode the status is read only after
\* the diagnostic stream reached end-of-input; the transcode is spawned at
\* most once and a terminal state never changes.
C6_Step ==
    /\ sup' # sup =>
         <<sup, sup'>> \in {<<"NotStarted", "Running">>,
                            <<"Running", "Succeeded">>,
                            <<"Running", "Failed">>}
    /\ Cardinality(TranscodeLaunches(launched')) <= 1
    /\ sup' # "NotStarted" => Cardinality(TranscodeLaunches(launched')) = 1
    /\ (IsSome(status') /\ ~settings.advanced_log) => eof'
    /\ sup' \in {"Succeeded", "Failed"} =>
         /\ IsSome(status')
         /\ IsSome(result')
         /\ sup' = "Succeeded" <=> Unwrap(status') = [code |-> 0]
         /\ sup' = "Succeeded" => Unwrap(result') = Ok
         /\ sup' = "Failed" =>
              /\ ~Unwrap(result').ok
              /\ EndsWith(Unwrap(result').err,
                          "failed with status: " \o StatusDisplay(Unwrap(status')))

C6_Supervisor == [][C6_Step]_vars

C6_Witness ==
    /\ sup = "Failed"
    /\ ~settings.advanced_log
    /\ status = Some([signal |-> 9])
    /\ nread > 0
    /\ eof

IsNumericBoundary(o) ==
    ~IsSome(o) \/ Unwrap(o) \in NoneSpellings \/ IsSome(ParseF64(Unwrap(o)))

\* C7: the stages run in the order validate, probe, resolve, assemble,
\* execute and the run stops at the first failing one; when the probe cannot
\* be started, the duration or the frame rate is not found, or a clip
\* boundary is non-numeric, the run ends with an error and the transcode is
\* never launched; the tool is invoked at most twice and the transcode never
\* precedes a successful probe.
C7_Step ==
    /\ pc' # pc =>
         <<pc, pc'>> \in {<<"validate", "probe">>, <<"probe", "resolve">>,
                          <<"resolve", "assemble">>, <<"assemble", "execute">>}
                         \cup {<<p, "done">> : p \in {"validate", "probe", "resolve",
                                                       "assemble", "execute"}}
    /\ Len(launched') <= 2
    /\ TranscodeLaunches(launched') # {} =>
         /\ [k \in 1..Len(launched') |-> launched'[k].kind] = <<"probe", "transcode">>
         /\ IsSome(duration')
         /\ IsSome(framerate')
         /\ IsNumericBoundary(settings.clip_start_time)
         /\ IsNumericBoundary(settings.clip_end_time)
    /\ pc' = "done" =>
         /\ IsSome(result')
         /\ TranscodeLaunches(launched') = {} => ~Unwrap(result').ok
         /\ Unwrap(result').ok => sup' = "Succeeded"

C7_Pipeline == [][C7_Step]_vars

C7_Witness ==
    /\ pc = "done"
    /\ settings.clip_start_time = Some("abc")
    /\ result = Some(Err("Invalid clip_start_time"))
    /\ Len(launched) = 1
    /\ IsSome(duration)

\* C8: in tracked mode the progress bar's position never decreases, whatever
\* diagnostic lines are read.
C8_ProgressMonotonic == [][position' >= position]_vars

\* C9: every resolved timing has clip-start >= 0, clip-end <= duration,
\* clip-end > clip-start and fade-out-start = clip-end - fade-out duration.
C9_ResolvedTimingInRange ==
    IsSome(timing) =>
      LET t == Unwrap(timing)
      IN  /\ t.clip_start >= 0
          /\ t.clip_end <= Unwrap(duration)
          /\ t.clip_end > t.clip_start
          /\ t.fade_out_start = t.clip_end - t.fade_out

\* C10: the video chain always starts with the fade directive, so every
\* assembled command holds -filter_complex [0:v]...[v] followed by -map [v]
\* and exactly one -c:v, hevc_nvenc under use_gpu and libx265 otherwise,
\* never copy.
C10_VideoAlwaysFiltered ==
    Assembled =>
      LET cmd == ffmpeg_command
      IN  /\ \E i \in TokensAt(cmd, "-filter_complex") :
               /\ StartsWith(cmd[i + 1], "[0:v]fade=t=in")
               /\ EndsWith(cmd[i + 1], "[v]")
               /\ cmd[i + 2] = "-map"
               /\ cmd[i + 3] = "[v]"
          /\ Cardinality(TokensAt(cmd, "-c:v")) = 1
          /\ \A i \in TokensAt(cmd, "-c:v") :
               /\ cmd[i + 1] = (IF settings.use_gpu THEN "hevc_nvenc" ELSE "libx265")
               /\ cmd[i + 1] # "copy"

C10_Witness ==
    /\ Assembled
    /\ ~IsSome(settings.upscale_resolution)
    /\ settings.video_speed = F(1)
    /\ settings.use_gpu
    /\ TokensAt(ffmpeg_command, "-c:v") # {}

====
